---------------------------- MODULE Spec2Model ----------------------------
(***************************************************************************)
(* Call processing of codebase_rag (parsers/call_processor.py).            *)
(*                                                                         *)
(* Text is modelled as a sequence of tokens: identifiers and the           *)
(* punctuation ".", "::", "(", ")" and "*".  The string operations of the  *)
(* code (split, join, startswith, endswith, "in", f-string concatenation)  *)
(* are operators on such sequences, so "project.a.f" is                    *)
(* <<"project", ".", "a", ".", "f">>.                                      *)
(***************************************************************************)
EXTENDS Integers, Sequences, FiniteSets, TLC

VARIABLES
    function_registry,  \* CallProcessor.function_registry: entries in insertion order
    import_mapping,     \* import_processor.import_mapping: module QN -> ordered import map
    class_inheritance,  \* CallProcessor.class_inheritance: class QN -> list of parent QNs
    call,               \* the arguments of the last call of a resolver method
    callee_info,        \* what that call returned
    rpc,                \* position of the resolver harness
    search_queue,       \* _resolve_inherited_method: queue, the classes still to probe
    search_visited,     \* _resolve_inherited_method: visited, the classes queued so far
    root_node,          \* the syntax tree of the file: its nodes in document order
    pass,               \* position in process_calls_in_file
    run,                \* which run over the file this is
    emitted,            \* the CALLS assertions sent to the graph writer in this run
    walked,             \* the callers handed to _ingest_function_calls in this run
    first_run           \* the CALLS assertions of the first run

tables == <<function_registry, import_mapping, class_inheritance>>
resolver == <<call, callee_info, rpc>>
search == <<search_queue, search_visited>>
walk == <<root_node, pass, run, emitted, walked, first_run>>
vars == <<function_registry, import_mapping, class_inheritance, call, callee_info, rpc,
          search_queue, search_visited, root_node, pass, run, emitted, walked, first_run>>

-----------------------------------------------------------------------------
(* Python's None, and the empty/absent local_var_types                     *)
None == <<>>
NoTypes == [x \in {} |-> <<>>]

(* str operations on token sequences *)
StartsWith(s, p) == Len(p) <= Len(s) /\ SubSeq(s, 1, Len(p)) = p
EndsWith(s, p) == Len(p) <= Len(s) /\ SubSeq(s, Len(s) - Len(p) + 1, Len(s)) = p
Contains(s, t) == \E i \in 1..Len(s) : s[i] = t
FirstIndex(s, t) == CHOOSE i \in 1..Len(s) : s[i] = t /\ \A j \in 1..(i - 1) : s[j] # t

RECURSIVE Split(_, _)
Split(s, sep) ==
    IF ~Contains(s, sep) THEN <<s>>
    ELSE LET i == FirstIndex(s, sep)
         IN <<SubSeq(s, 1, i - 1)>> \o Split(SubSeq(s, i + 1, Len(s)), sep)

RECURSIVE Join(_, _)
Join(parts, sep) ==
    IF parts = <<>> THEN <<>>
    ELSE IF Len(parts) = 1 THEN parts[1]
    ELSE parts[1] \o <<sep>> \o Join(Tail(parts), sep)

(* f"{a}.{b}" and f"{a}::{b}" *)
Dot(a, b) == a \o <<".">> \o b
Colons(a, b) == a \o <<"::">> \o b

(* one-token text *)
T(name) == <<name>>
(* "a.b.c" from <<"a", "b", "c">> *)
QN(names) == Join([i \in 1..Len(names) |-> <<names[i]>>], ".")

-----------------------------------------------------------------------------
(* The Function Registry: `qn in registry`, `registry[qn]`,                *)
(* `registry.find_ending_with(tail)`.                                      *)
RegistryQNs == {function_registry[i].qn : i \in 1..Len(function_registry)}
InRegistry(qn) == qn \in RegistryQNs
RegistryKind(qn) ==
    function_registry[CHOOSE i \in 1..Len(function_registry) : function_registry[i].qn = qn].kind

RECURSIVE SelectQNs(_, _)
SelectQNs(entries, tail) ==
    IF entries = <<>> THEN <<>>
    ELSE (IF EndsWith(entries[1].qn, <<".">> \o tail) THEN <<entries[1].qn>> ELSE <<>>)
         \o SelectQNs(Tail(entries), tail)

find_ending_with(tail) == SelectQNs(function_registry, tail)

(* The Import Map of a module: an insertion-ordered dict *)
ImportKeys(import_map) == {import_map[i].key : i \in 1..Len(import_map)}
ImportValue(import_map, key) ==
    import_map[CHOOSE i \in 1..Len(import_map) : import_map[i].key = key].value

(* utils.resolve_class_name: the Import Map first, then a same-module entry *)
resolve_class_name(class_name, module_qn) ==
    IF module_qn \in DOMAIN import_mapping
       /\ class_name \in ImportKeys(import_mapping[module_qn])
    THEN ImportValue(import_mapping[module_qn], class_name)
    ELSE IF InRegistry(Dot(module_qn, class_name)) THEN Dot(module_qn, class_name)
    ELSE None

-----------------------------------------------------------------------------
(* _resolve_inherited_method: breadth-first search over the parents        *)
(* grandparents queued whether or not they were queued before *)
RECURSIVE AddGrandparentsUnvisited(_, _, _)
AddGrandparentsUnvisited(grandparents, queue, visited) ==
    IF grandparents = <<>> THEN [queue |-> queue, visited |-> visited]
    ELSE AddGrandparentsUnvisited(Tail(grandparents), Append(queue, grandparents[1]), visited)

RECURSIVE AddGrandparents(_, _, _)
AddGrandparents(grandparents, queue, visited) ==
    IF grandparents = <<>> THEN [queue |-> queue, visited |-> visited]
    ELSE IF grandparents[1] \notin visited
         THEN AddGrandparents(Tail(grandparents), Append(queue, grandparents[1]),
                              visited \cup {grandparents[1]})
         ELSE AddGrandparents(Tail(grandparents), queue, visited)

(* a search that follows each parent's own parents before its siblings *)
RECURSIVE InheritanceDepthFirst(_, _, _)
InheritanceDepthFirst(queue, visited, method_name) ==
    IF queue = <<>> THEN None
    ELSE LET parent_class_qn == Head(queue)
             parent_method_qn == Dot(parent_class_qn, method_name)
         IN IF InRegistry(parent_method_qn)
            THEN <<RegistryKind(parent_method_qn), parent_method_qn>>
            ELSE IF parent_class_qn \in DOMAIN class_inheritance
                 THEN LET nxt == AddGrandparents(class_inheritance[parent_class_qn],
                                                 <<>>, visited)
                      IN InheritanceDepthFirst(nxt.queue \o Tail(queue), nxt.visited,
                                               method_name)
                 ELSE InheritanceDepthFirst(Tail(queue), visited, method_name)

RECURSIVE InheritanceQueue(_, _, _)
InheritanceQueue(queue, visited, method_name) ==
    IF queue = <<>> THEN None
    ELSE LET parent_class_qn == Head(queue)
             parent_method_qn == Dot(parent_class_qn, method_name)
         IN IF InRegistry(parent_method_qn)
            THEN <<RegistryKind(parent_method_qn), parent_method_qn>>
            ELSE IF parent_class_qn \in DOMAIN class_inheritance
                 THEN LET nxt == AddGrandparents(class_inheritance[parent_class_qn],
                                                 Tail(queue), visited)
                      IN InheritanceQueue(nxt.queue, nxt.visited, method_name)
                 ELSE InheritanceQueue(Tail(queue), visited, method_name)

Range(s) == {s[i] : i \in 1..Len(s)}

ResolveInheritedMethod(class_qn, method_name) ==
    IF class_qn \notin DOMAIN class_inheritance THEN None
    ELSE InheritanceQueue(class_inheritance[class_qn],
                          Range(class_inheritance[class_qn]), method_name)

(* a super call that looks in the calling class before its parents *)
ResolveSuperCallOwnClass(call_name, module_qn, class_context) ==
    IF ~Contains(call_name, ".") \/ class_context = None THEN None
    ELSE LET method_name == SubSeq(call_name, FirstIndex(call_name, ".") + 1, Len(call_name))
         IN IF InRegistry(Dot(class_context, method_name))
            THEN <<RegistryKind(Dot(class_context, method_name)),
                   Dot(class_context, method_name)>>
            ELSE ResolveInheritedMethod(class_context, method_name)

(* _resolve_super_call *)
ResolveSuperCall(call_name, module_qn, class_context) ==
    IF ~Contains(call_name, ".") THEN None
    ELSE LET dot == FirstIndex(call_name, ".")
             method_name == SubSeq(call_name, dot + 1, Len(call_name))
         IN IF class_context = None THEN None
            ELSE IF class_context \notin DOMAIN class_inheritance THEN None
            ELSE IF class_inheritance[class_context] = <<>> THEN None
            ELSE ResolveInheritedMethod(class_context, method_name)

-----------------------------------------------------------------------------
(* _calculate_import_distance *)
RECURSIVE CommonPrefix(_, _)
CommonPrefix(a, b) ==
    IF a = <<>> \/ b = <<>> THEN 0
    ELSE IF a[1] = b[1] THEN 1 + CommonPrefix(Tail(a), Tail(b))
    ELSE 0

Max(a, b) == IF a >= b THEN a ELSE b

CalculateImportDistance(candidate_qn, caller_module_qn) ==
    LET caller_parts == Split(caller_module_qn, ".")
        candidate_parts == Split(candidate_qn, ".")
        common_prefix == CommonPrefix(caller_parts, candidate_parts)
        base_distance == Max(Len(caller_parts), Len(candidate_parts)) - common_prefix
        parent == Join(SubSeq(caller_parts, 1, Len(caller_parts) - 1), ".") \o <<".">>
    IN IF StartsWith(candidate_qn, parent) THEN base_distance - 1 ELSE base_distance

(* an insertion that puts a name before the names of equal distance *)
InsertBeforeEqual(sorted, qn, caller_module_qn) ==
    LET closer == {i \in 1..Len(sorted) :
                       CalculateImportDistance(sorted[i], caller_module_qn)
                           < CalculateImportDistance(qn, caller_module_qn)}
    IN SubSeq(sorted, 1, Cardinality(closer)) \o <<qn>>
           \o SubSeq(sorted, Cardinality(closer) + 1, Len(sorted))

(* list.sort(key=...): stable, ascending *)
RECURSIVE InsertByDistance(_, _, _)
InsertByDistance(sorted, qn, caller_module_qn) ==
    IF sorted = <<>> THEN <<qn>>
    ELSE IF CalculateImportDistance(qn, caller_module_qn)
            < CalculateImportDistance(sorted[1], caller_module_qn)
         THEN <<qn>> \o sorted
         ELSE <<sorted[1]>> \o InsertByDistance(Tail(sorted), qn, caller_module_qn)

RECURSIVE SortFrom(_, _, _)
SortFrom(sorted, rest, caller_module_qn) ==
    IF rest = <<>> THEN sorted
    ELSE SortFrom(InsertByDistance(sorted, rest[1], caller_module_qn), Tail(rest),
                  caller_module_qn)

SortByDistance(possible_matches, caller_module_qn) ==
    SortFrom(<<>>, possible_matches, caller_module_qn)

-----------------------------------------------------------------------------
(* _is_method_chain *)
HasCall(part) == Contains(part, "(") /\ Contains(part, ")")

IsMethodChain(call_name) ==
    IF Contains(call_name, "(") /\ Contains(call_name, ")")
    THEN LET parts == Split(call_name, ".")
             method_calls == Cardinality({i \in 1..Len(parts) : HasCall(parts[i])})
         IN method_calls >= 1 /\ Len(parts) >= 2
    ELSE FALSE

(* re.search(r"\.([^.()]+)$", call_name): the start of the match, 0 for no match *)
FinalMethodMatch(call_name) ==
    LET starts == {i \in 1..Len(call_name) :
                       /\ call_name[i] = "."
                       /\ i < Len(call_name)
                       /\ \A j \in (i + 1)..Len(call_name) :
                              call_name[j] \notin {".", "(", ")"}}
    IN IF starts = {} THEN 0 ELSE CHOOSE i \in starts : \A k \in starts : i <= k

(* The index of the "(" that the ")" at the end of expr closes, 0 if none *)
RECURSIVE OpenParen(_, _, _)
OpenParen(expr, i, depth) ==
    IF i < 1 THEN 0
    ELSE IF expr[i] = ")" THEN OpenParen(expr, i - 1, depth + 1)
    ELSE IF expr[i] = "(" THEN (IF depth = 1 THEN i ELSE OpenParen(expr, i - 1, depth - 1))
    ELSE OpenParen(expr, i - 1, depth)

(* A type name as a class QN: a dotted name is one already *)
TypeQN(type_name, module_qn) ==
    IF Contains(type_name, ".") THEN type_name ELSE resolve_class_name(type_name, module_qn)

(* the return annotations of the scanned methods: def make(self) -> B *)
DeclaredReturns ==
    [method_qn \in {<<"p", ".", "m", ".", "C", ".", "make">>} |-> <<"B">>]

(* type_inference._infer_expression_return_type: Recv.method(args), where  *)
(* Recv has a type with method registered, has the declared return class   *)
(* of that method, or else the type of Recv; a receiver is typed by the    *)
(* local variable map                                                      *)
RECURSIVE InferExpressionReturnType(_, _, _)
InferExpressionReturnType(expr, module_qn, local_var_types) ==
    IF expr \in DOMAIN local_var_types THEN TypeQN(local_var_types[expr], module_qn)
    ELSE IF expr = <<>> \/ expr[Len(expr)] # ")" THEN None
    ELSE LET open == OpenParen(expr, Len(expr), 0)
             callee == SubSeq(expr, 1, open - 1)
             dot == FinalMethodMatch(callee)
         IN IF open = 0 \/ dot = 0 THEN None
            ELSE LET recv_type == InferExpressionReturnType(SubSeq(callee, 1, dot - 1),
                                                            module_qn, local_var_types)
                     method == SubSeq(callee, dot + 1, Len(callee))
                 IN IF recv_type # None /\ InRegistry(Dot(recv_type, method))
                    THEN (IF Dot(recv_type, method) \in DOMAIN DeclaredReturns
                          THEN DeclaredReturns[Dot(recv_type, method)]
                          ELSE recv_type)
                    ELSE None

(* a chained call resolved on the inferred class only, not on its parents *)
ResolveChainedCallExact(call_name, module_qn, local_var_types) ==
    LET start == FinalMethodMatch(call_name)
    IN IF start = 0 THEN None
       ELSE LET object_type == InferExpressionReturnType(SubSeq(call_name, 1, start - 1),
                                                         module_qn, local_var_types)
                method_qn == Dot(TypeQN(object_type, module_qn),
                                 SubSeq(call_name, start + 1, Len(call_name)))
            IN IF object_type # None /\ InRegistry(method_qn)
               THEN <<RegistryKind(method_qn), method_qn>>
               ELSE None

(* _resolve_chained_call *)
ResolveChainedCall(call_name, module_qn, local_var_types) ==
    LET start == FinalMethodMatch(call_name)
    IN IF start = 0 THEN None
       ELSE LET final_method == SubSeq(call_name, start + 1, Len(call_name))
                object_expr == SubSeq(call_name, 1, start - 1)
                object_type == InferExpressionReturnType(object_expr, module_qn,
                                                         local_var_types)
            IN IF object_type = None THEN None
               ELSE LET resolved_class ==
                            IF ~Contains(object_type, ".")
                            THEN resolve_class_name(object_type, module_qn)
                            ELSE None
                        full_object_type ==
                            IF resolved_class # None THEN resolved_class ELSE object_type
                        method_qn == Dot(full_object_type, final_method)
                    IN IF InRegistry(method_qn)
                       THEN <<RegistryKind(method_qn), method_qn>>
                       ELSE ResolveInheritedMethod(full_object_type, final_method)

-----------------------------------------------------------------------------
(* _resolve_function_call, phase by phase.  Each phase is None for a miss. *)

(* a direct import returned without looking it up in the registry *)
DirectImportUnchecked(call_name, import_map) ==
    IF call_name \in ImportKeys(import_map)
    THEN <<"Function", ImportValue(import_map, call_name)>>
    ELSE None

(* 1a.1 direct import resolution *)
DirectImport(call_name, import_map) ==
    IF call_name \in ImportKeys(import_map)
    THEN LET imported_qn == ImportValue(import_map, call_name)
         IN IF InRegistry(imported_qn)
            THEN <<RegistryKind(imported_qn), imported_qn>>
            ELSE None
    ELSE None

(* the receiver's type resolved to a class: Class.method, then its ancestors *)
InstanceCall(var_type, method_name, module_qn, import_map) ==
    LET class_qn == IF var_type \in ImportKeys(import_map)
                    THEN ImportValue(import_map, var_type)
                    ELSE resolve_class_name(var_type, module_qn)
        method_qn == Dot(class_qn, method_name)
    IN IF class_qn = <<>> THEN None
       ELSE IF InRegistry(method_qn) THEN <<RegistryKind(method_qn), method_qn>>
       ELSE ResolveInheritedMethod(class_qn, method_name)

(* 1a.2 self.attribute.method *)
SelfAttributeCall(parts, module_qn, local_var_types, import_map) ==
    LET attribute_ref == Join(SubSeq(parts, 1, Len(parts) - 1), ".")
        method_name == parts[Len(parts)]
    IN IF attribute_ref \in DOMAIN local_var_types
       THEN InstanceCall(local_var_types[attribute_ref], method_name, module_qn, import_map)
       ELSE None

(* Class.method where an imported name is never looked up as a variable *)
ClassMethodCallExclusive(parts, module_qn, local_var_types, import_map) ==
    LET class_name == parts[1]
        method_name == Join(Tail(parts), ".")
    IN IF class_name \in ImportKeys(import_map)
       THEN (IF InRegistry(Dot(ImportValue(import_map, class_name), method_name))
             THEN <<RegistryKind(Dot(ImportValue(import_map, class_name), method_name)),
                    Dot(ImportValue(import_map, class_name), method_name)>>
             ELSE None)
       ELSE IF class_name \in DOMAIN local_var_types
       THEN InstanceCall(local_var_types[class_name], method_name, module_qn, import_map)
       ELSE None

(* 1a.2 Class.method: the imported class, then a typed local variable *)
ClassMethodCall(parts, module_qn, local_var_types, import_map) ==
    LET class_name == parts[1]
        method_name == Join(Tail(parts), ".")
        imported ==
            IF class_name \in ImportKeys(import_map)
               /\ InRegistry(Dot(ImportValue(import_map, class_name), method_name))
            THEN LET method_qn == Dot(ImportValue(import_map, class_name), method_name)
                 IN <<RegistryKind(method_qn), method_qn>>
            ELSE None
    IN IF imported # None THEN imported
       ELSE IF class_name \in DOMAIN local_var_types
       THEN InstanceCall(local_var_types[class_name], method_name, module_qn, import_map)
       ELSE None

(* 1a.2 qualified calls *)
QualifiedCall(call_name, module_qn, local_var_types, import_map) ==
    IF Contains(call_name, ".")
    THEN LET parts == Split(call_name, ".")
         IN IF Len(parts) >= 3 /\ parts[1] = T("self")
            THEN SelfAttributeCall(parts, module_qn, local_var_types, import_map)
            ELSE ClassMethodCall(parts, module_qn, local_var_types, import_map)
    ELSE None

(* 1b. the probes of one wildcard entry, in order *)
PotentialQNs(imported_qn, call_name) ==
    IF Contains(imported_qn, "::")
    THEN <<Colons(imported_qn, call_name)>>
    ELSE <<Dot(imported_qn, call_name), Colons(imported_qn, call_name)>>

RECURSIVE FirstRegistered(_)
FirstRegistered(qns) ==
    IF qns = <<>> THEN None
    ELSE IF InRegistry(qns[1]) THEN <<RegistryKind(qns[1]), qns[1]>>
    ELSE FirstRegistered(Tail(qns))

(* wildcard imports where the last entry that hits wins *)
RECURSIVE WildcardImportLastHit(_, _)
WildcardImportLastHit(call_name, import_map) ==
    IF import_map = <<>> THEN None
    ELSE LET later == WildcardImportLastHit(call_name, Tail(import_map))
         IN IF later # None THEN later
            ELSE IF StartsWith(import_map[1].key, <<"*">>)
                 THEN FirstRegistered(PotentialQNs(import_map[1].value, call_name))
                 ELSE None

(* 1b. wildcard imports, in the order of import_map.items() *)
RECURSIVE WildcardImport(_, _)
WildcardImport(call_name, import_map) ==
    IF import_map = <<>> THEN None
    ELSE LET hit == IF StartsWith(import_map[1].key, T("*"))
                    THEN FirstRegistered(PotentialQNs(import_map[1].value, call_name))
                    ELSE None
         IN IF hit # None THEN hit ELSE WildcardImport(call_name, Tail(import_map))

(* 2a. a function of the same module *)
SameModule(call_name, module_qn) ==
    LET same_module_func_qn == Dot(module_qn, call_name)
    IN IF InRegistry(same_module_func_qn)
       THEN <<RegistryKind(same_module_func_qn), same_module_func_qn>>
       ELSE None

(* 2b. the trie: the closest of the names ending with call_name *)
TrieFallback(call_name, module_qn) ==
    LET possible_matches == find_ending_with(call_name)
    IN IF possible_matches # <<>>
       THEN LET best_candidate_qn == SortByDistance(possible_matches, module_qn)[1]
            IN <<RegistryKind(best_candidate_qn), best_candidate_qn>>
       ELSE None

(* Phase 1 with the wildcard imports tried before the direct import *)
ImportPhaseWildcardFirst(call_name, module_qn, local_var_types) ==
    IF module_qn \in DOMAIN import_mapping
    THEN LET import_map == import_mapping[module_qn]
             wildcard == WildcardImport(call_name, import_map)
             direct == DirectImport(call_name, import_map)
         IN IF wildcard # None THEN wildcard
            ELSE IF direct # None THEN direct
            ELSE QualifiedCall(call_name, module_qn, local_var_types, import_map)
    ELSE None

(* Phase 1, entered when the module has an import map *)
ImportPhase(call_name, module_qn, local_var_types) ==
    IF module_qn \in DOMAIN import_mapping
    THEN LET import_map == import_mapping[module_qn]
             direct == DirectImport(call_name, import_map)
             qualified == QualifiedCall(call_name, module_qn, local_var_types, import_map)
         IN IF direct # None THEN direct
            ELSE IF qualified # None THEN qualified
            ELSE WildcardImport(call_name, import_map)
    ELSE None

(* Phase 2 *)
HeuristicPhase(call_name, module_qn) ==
    LET same == SameModule(call_name, module_qn)
    IN IF same # None THEN same ELSE TrieFallback(call_name, module_qn)

(* the resolver with the heuristics tried before the import map *)
ResolveHeuristicFirst(call_name, module_qn, local_var_types, class_context) ==
    IF StartsWith(call_name, <<"super", "(", ")">>)
    THEN ResolveSuperCall(call_name, module_qn, class_context)
    ELSE IF Contains(call_name, ".") /\ IsMethodChain(call_name)
    THEN ResolveChainedCall(call_name, module_qn, local_var_types)
    ELSE LET heuristic == HeuristicPhase(call_name, module_qn)
         IN IF heuristic # None THEN heuristic
            ELSE ImportPhase(call_name, module_qn, local_var_types)

SuperPrefix == <<"super", "(", ")">>

(* the resolver with the chain test made before the super() test *)
ResolveChainFirst(call_name, module_qn, local_var_types, class_context) ==
    IF Contains(call_name, ".") /\ IsMethodChain(call_name)
    THEN ResolveChainedCall(call_name, module_qn, local_var_types)
    ELSE IF StartsWith(call_name, SuperPrefix)
    THEN ResolveSuperCall(call_name, module_qn, class_context)
    ELSE LET imported == ImportPhase(call_name, module_qn, local_var_types)
         IN IF imported # None THEN imported
            ELSE HeuristicPhase(call_name, module_qn)

ResolveFunctionCall(call_name, module_qn, local_var_types, class_context) ==
    IF StartsWith(call_name, SuperPrefix)
    THEN ResolveSuperCall(call_name, module_qn, class_context)
    ELSE IF Contains(call_name, ".") /\ IsMethodChain(call_name)
    THEN ResolveChainedCall(call_name, module_qn, local_var_types)
    ELSE LET imported == ImportPhase(call_name, module_qn, local_var_types)
         IN IF imported # None THEN imported
            ELSE HeuristicPhase(call_name, module_qn)

-----------------------------------------------------------------------------
(* The inputs of the resolver: tables as passes 1 and 2 leave them, for a  *)
(* project "p" whose module p.m makes the calls.                           *)
MaxRegistry == 3
MaxImports == 2

MODULE_QN == QN(<<"p", "m">>)

Entry(names, kind) == [qn |-> QN(names), kind |-> kind]

RegistryUniverse ==
    << Entry(<<"p", "x", "f">>, "Function"),
       Entry(<<"p", "lib", "C", "run">>, "Method"),
       Entry(<<"p", "lib", "f">>, "Function"),
       Entry(<<"p", "m", "f">>, "Function"),
       Entry(<<"p", "m", "C">>, "Class"),
       Entry(<<"p", "m", "C", "run">>, "Method"),
       Entry(<<"p", "m", "B", "run">>, "Method") >>

Import(key, names) == [key |-> key, value |-> QN(names)]

ImportUniverse ==
    << Import(T("f"), <<"p", "lib", "f">>),
       Import(T("f"), <<"ext", "f">>),
       Import(T("g"), <<"p", "x", "f">>),
       Import(T("C"), <<"p", "lib", "C">>),
       Import(<<"*", "x">>, <<"p", "x">>),
       Import(<<"*", "lib">>, <<"p", "lib">>) >>

(* the entries of universe at the indices in S, in the order of universe *)
RECURSIVE Pick(_, _, _)
Pick(universe, S, i) ==
    IF i > Len(universe) THEN <<>>
    ELSE (IF i \in S THEN <<universe[i]>> ELSE <<>>) \o Pick(universe, S, i + 1)

Reverse(s) == [i \in 1..Len(s) |-> s[Len(s) + 1 - i]]

Choices(universe, max) ==
    {Pick(universe, S, 1) :
         S \in {S \in SUBSET (1..Len(universe)) : Cardinality(S) <= max}}

(* insertion follows the order in which the files are scanned *)
Registries == Choices(RegistryUniverse, MaxRegistry)

(* the imports of a module in either order, one binding for each name *)
ImportMaps ==
    {im \in Choices(ImportUniverse, MaxImports)
              \cup {Reverse(c) : c \in Choices(ImportUniverse, MaxImports)} :
         \A i, j \in 1..Len(im) : im[i].key = im[j].key => i = j}

(* import_mapping has no entry for a module whose imports were not parsed  *)
ImportMappings ==
    {[m \in {} |-> <<>>]} \cup {[m \in {MODULE_QN} |-> im] : im \in ImportMaps}

ClassC == QN(<<"p", "m", "C">>)
ClassB == QN(<<"p", "m", "B">>)
ClassLibC == QN(<<"p", "lib", "C">>)

Inheritances ==
    { [c \in {} |-> <<>>],
      [c \in {ClassC} |-> <<>>],
      [c \in {ClassC} |-> <<ClassB>>],
      [c \in {ClassC, ClassLibC} |-> IF c = ClassC THEN <<ClassLibC>> ELSE <<ClassB>>] }

Typed == [x \in {T("u"), QN(<<"self", "r">>)} |-> T("C")]

PlainCallNames ==
    { T("f"), T("g"), T("run"), QN(<<"C", "run">>), QN(<<"u", "run">>),
      QN(<<"self", "r", "run">>),
      <<"u", ".", "run", "(", ")", ".", "run">> }

SuperCallNames == { SuperPrefix, SuperPrefix \o <<".", "run">> }

CallInputs ==
    {[call_name |-> n, module_qn |-> MODULE_QN, local_var_types |-> t,
      class_context |-> None] : n \in PlainCallNames, t \in {NoTypes, Typed}}
    \cup
    {[call_name |-> n, module_qn |-> MODULE_QN, local_var_types |-> NoTypes,
      class_context |-> c] : n \in SuperCallNames, c \in {None, ClassC, ClassB}}

NoCall == [call_name |-> <<>>, module_qn |-> <<>>, local_var_types |-> NoTypes,
           class_context |-> None]

InitResolve ==
    /\ function_registry \in Registries
    /\ import_mapping \in ImportMappings
    /\ class_inheritance \in Inheritances
    /\ call = NoCall
    /\ callee_info = None
    /\ search_queue = <<>>
    /\ search_visited = {}
    /\ rpc = "idle"
    /\ root_node = <<>>
    /\ pass = "none"
    /\ run = 0
    /\ emitted = <<>>
    /\ walked = <<>>
    /\ first_run = <<>>

(* one call of _resolve_function_call *)
Resolve ==
    /\ rpc = "idle"
    /\ \E c \in CallInputs :
           /\ call' = c
           /\ callee_info' = ResolveFunctionCall(c.call_name, c.module_qn,
                                                 c.local_var_types, c.class_context)
    /\ rpc' = "resolved"
    /\ UNCHANGED <<search, tables, walk>>

NextResolve == Resolve

SpecResolve == InitResolve /\ [][NextResolve]_vars

-----------------------------------------------------------------------------
(* The resolver over class hierarchies: several parents, grandparents, a   *)
(* parent that is not registered, a cycle                                  *)
ClassA == QN(<<"p", "m", "A">>)

Hierarchies ==
    Inheritances \cup
    { [c \in {ClassC} |-> <<ClassLibC, ClassB>>],
      [c \in {ClassC} |-> <<ClassB, ClassLibC>>],
      [c \in {ClassC, ClassA} |-> IF c = ClassC THEN <<ClassA, ClassB>> ELSE <<ClassLibC>>],
      [c \in {ClassC, ClassA, ClassB} |->
           IF c = ClassC THEN <<ClassA, ClassB>> ELSE <<ClassLibC>>],
      [c \in {ClassC, ClassB} |-> IF c = ClassC THEN <<ClassB>> ELSE <<ClassC, ClassLibC>>] }

InitInherit ==
    /\ function_registry \in Registries
    /\ import_mapping \in {[m \in {} |-> <<>>], [m \in {MODULE_QN} |-> <<>>]}
    /\ class_inheritance \in Hierarchies
    /\ call = NoCall
    /\ callee_info = None
    /\ search_queue = <<>>
    /\ search_visited = {}
    /\ rpc = "idle"
    /\ root_node = <<>>
    /\ pass = "none"
    /\ run = 0
    /\ emitted = <<>>
    /\ walked = <<>>
    /\ first_run = <<>>

(* the queue of the walk when _resolve_inherited_method returns *)
RECURSIVE QueueAfterWalk(_, _, _)
QueueAfterWalk(queue, visited, method_name) ==
    IF queue = <<>> THEN <<>>
    ELSE IF InRegistry(Dot(Head(queue), method_name)) THEN Tail(queue)
    ELSE IF Head(queue) \in DOMAIN class_inheritance
         THEN LET nxt == AddGrandparents(class_inheritance[Head(queue)], Tail(queue), visited)
              IN QueueAfterWalk(nxt.queue, nxt.visited, method_name)
         ELSE QueueAfterWalk(Tail(queue), visited, method_name)

(* a walk whose queue is the parent list of the table itself *)
ParentsConsumedByWalk(class_qn, method_name) ==
    QueueAfterWalk(class_inheritance[class_qn], Range(class_inheritance[class_qn]),
                   method_name)

(* the parent list of class_qn after the walk: the queue is a new list     *)
(* (list(...)), so its pops and appends leave the list of the table alone  *)
ParentsAfterWalk(class_qn, method_name) == class_inheritance[class_qn]

(* one call of _resolve_inherited_method *)
ResolveInherited ==
    /\ \E class_qn \in {ClassC, ClassB, ClassA} :
           /\ call' = [call_name |-> T("run"), module_qn |-> MODULE_QN,
                       local_var_types |-> NoTypes, class_context |-> class_qn]
           /\ callee_info' = ResolveInheritedMethod(class_qn, T("run"))
           /\ class_inheritance' =
                  IF class_qn \in DOMAIN class_inheritance
                  THEN [class_inheritance EXCEPT
                            ![class_qn] = ParentsAfterWalk(class_qn, T("run"))]
                  ELSE class_inheritance
    /\ rpc' = "inherited"
    /\ UNCHANGED <<search, function_registry, import_mapping, walk>>

NextInherit == Resolve \/ ResolveInherited

SpecInherit == InitInherit /\ [][NextInherit]_vars

-----------------------------------------------------------------------------
(* _resolve_inherited_method turn by turn of its loop, over hierarchies    *)
(* that also hold a class that is its own parent and a parent named twice  *)
WalkHierarchies ==
    Hierarchies \cup
    { [c \in {ClassC} |-> <<ClassC>>],
      [c \in {ClassC} |-> <<ClassB, ClassB>>] }

InitWalk ==
    /\ function_registry \in Registries
    /\ import_mapping = [m \in {} |-> <<>>]
    /\ class_inheritance \in WalkHierarchies
    /\ call = NoCall
    /\ callee_info = None
    /\ search_queue = <<>>
    /\ search_visited = {}
    /\ rpc = "idle"
    /\ root_node = <<>>
    /\ pass = "none"
    /\ run = 0
    /\ emitted = <<>>
    /\ walked = <<>>
    /\ first_run = <<>>

(* lines 599-604: the call up to the loop *)
StartWalk ==
    /\ rpc = "idle"
    /\ \E class_qn \in {ClassC, ClassB, ClassA} :
           /\ call' = [call_name |-> T("run"), module_qn |-> MODULE_QN,
                       local_var_types |-> NoTypes, class_context |-> class_qn]
           /\ IF class_qn \notin DOMAIN class_inheritance
              THEN /\ rpc' = "returned"
                   /\ UNCHANGED search
              ELSE /\ rpc' = "walking"
                   /\ search_queue' = class_inheritance[class_qn]
                   /\ search_visited' = Range(class_inheritance[class_qn])
    /\ callee_info' = None
    /\ UNCHANGED <<tables, walk>>

(* lines 606-624: one turn of the loop, or the return after it *)
WalkStep ==
    /\ rpc = "walking"
    /\ IF search_queue = <<>>
       THEN /\ callee_info' = None
            /\ rpc' = "returned"
            /\ UNCHANGED search
       ELSE LET parent_class_qn == Head(search_queue)
                parent_method_qn == Dot(parent_class_qn, call.call_name)
            IN IF InRegistry(parent_method_qn)
               THEN /\ callee_info' = <<RegistryKind(parent_method_qn), parent_method_qn>>
                    /\ rpc' = "returned"
                    /\ search_queue' = Tail(search_queue)
                    /\ UNCHANGED search_visited
               ELSE \E nxt \in {IF parent_class_qn \in DOMAIN class_inheritance
                                 THEN AddGrandparents(class_inheritance[parent_class_qn],
                                                      Tail(search_queue), search_visited)
                                 ELSE [queue |-> Tail(search_queue),
                                       visited |-> search_visited]} :
                        /\ search_queue' = nxt.queue
                        /\ search_visited' = nxt.visited
                        /\ UNCHANGED <<callee_info, rpc>>
    /\ UNCHANGED <<tables, call, walk>>

NextWalk == StartWalk \/ WalkStep

(* the loop runs on while the call has not returned *)
SpecWalk == InitWalk /\ [][NextWalk]_vars /\ WF_vars(WalkStep)

-----------------------------------------------------------------------------
(* The resolver over wildcard imports of a package recorded with "::"      *)
PackageColons == <<"p", "::", "x">>

SeparatorRegistryUniverse ==
    << [qn |-> Dot(PackageColons, T("f")), kind |-> "Function"],
       [qn |-> Colons(PackageColons, T("f")), kind |-> "Function"],
       Entry(<<"p", "x", "f">>, "Function"),
       Entry(<<"p", "m", "f">>, "Function") >>

SeparatorImportUniverse ==
    << [key |-> <<"*", "p", "::", "x">>, value |-> PackageColons],
       Import(<<"*", "x">>, <<"p", "x">>),
       Import(T("g"), <<"p", "x", "f">>) >>

InitSeparator ==
    /\ function_registry \in Choices(SeparatorRegistryUniverse, MaxRegistry)
    /\ import_mapping \in
           {[m \in {MODULE_QN} |-> im] :
                im \in Choices(SeparatorImportUniverse, MaxImports)
                           \cup {Reverse(c) : c \in Choices(SeparatorImportUniverse, MaxImports)}}
    /\ class_inheritance = [c \in {} |-> <<>>]
    /\ call = NoCall
    /\ callee_info = None
    /\ search_queue = <<>>
    /\ search_visited = {}
    /\ rpc = "idle"
    /\ root_node = <<>>
    /\ pass = "none"
    /\ run = 0
    /\ emitted = <<>>
    /\ walked = <<>>
    /\ first_run = <<>>

SpecSeparator == InitSeparator /\ [][NextResolve]_vars

-----------------------------------------------------------------------------
(* The resolver where a local variable has the name of an import: u is     *)
(* both the name the class p.lib.C is imported under and a variable of     *)
(* type C                                                                  *)
ShadowImportUniverse ==
    << Import(T("u"), <<"p", "lib", "C">>),
       Import(T("C"), <<"p", "lib", "C">>),
       Import(T("f"), <<"p", "lib", "f">>) >>

InitShadow ==
    /\ function_registry \in Registries
    /\ import_mapping \in
           {[m \in {MODULE_QN} |-> im] :
                im \in Choices(ShadowImportUniverse, MaxImports)
                           \cup {Reverse(c) : c \in Choices(ShadowImportUniverse, MaxImports)}}
    /\ class_inheritance \in Inheritances
    /\ call = NoCall
    /\ callee_info = None
    /\ search_queue = <<>>
    /\ search_visited = {}
    /\ rpc = "idle"
    /\ root_node = <<>>
    /\ pass = "none"
    /\ run = 0
    /\ emitted = <<>>
    /\ walked = <<>>
    /\ first_run = <<>>

SpecShadow == InitShadow /\ [][NextResolve]_vars

-----------------------------------------------------------------------------
(* The resolver over chained calls: classes C and B of module p.m, where   *)
(* C.make is declared to return B and B may inherit run from A             *)
ChainClassUniverse ==
    << Entry(<<"p", "m", "C">>, "Class"),
       Entry(<<"p", "m", "B">>, "Class") >>

ChainMethodUniverse ==
    << Entry(<<"p", "m", "C", "make">>, "Method"),
       Entry(<<"p", "m", "A", "run">>, "Method"),
       Entry(<<"p", "m", "C", "run">>, "Method"),
       Entry(<<"p", "m", "B", "run">>, "Method"),
       Entry(<<"p", "m", "B", "make">>, "Method") >>

ChainRegistries ==
    {classes \o methods : classes \in Choices(ChainClassUniverse, 2),
                          methods \in Choices(ChainMethodUniverse, MaxRegistry)}

ChainHierarchies ==
    { [c \in {} |-> <<>>],
      [c \in {ClassB} |-> <<ClassA>>],
      [c \in {ClassC, ClassB} |-> IF c = ClassC THEN <<ClassB>> ELSE <<ClassA>>] }

ChainCallNames ==
    { <<"u", ".", "make", "(", ")", ".", "run">>,
      <<"u", ".", "run", "(", ")", ".", "run">>,
      <<"u", ".", "make", "(", ")", ".", "make">>,
      <<"u", ".", "make", "(", ")", ".", "x", ".", "run">>,
      <<"u", ".", "make", "(", "u", ".", "run", "(", ")", ")", ".", "run">>,
      <<"u", ".", "make", "(", ")", ".", "make", "(", ")", ".", "run">>,
      <<"w", ".", "make", "(", ")", ".", "run">> }

ChainCallInputs ==
    {[call_name |-> n, module_qn |-> MODULE_QN, local_var_types |-> t,
      class_context |-> None] : n \in ChainCallNames, t \in {NoTypes, Typed}}

InitChain ==
    /\ function_registry \in ChainRegistries
    /\ import_mapping \in {[m \in {} |-> <<>>], [m \in {MODULE_QN} |-> <<>>]}
    /\ class_inheritance \in ChainHierarchies
    /\ call = NoCall
    /\ callee_info = None
    /\ search_queue = <<>>
    /\ search_visited = {}
    /\ rpc = "idle"
    /\ root_node = <<>>
    /\ pass = "none"
    /\ run = 0
    /\ emitted = <<>>
    /\ walked = <<>>
    /\ first_run = <<>>

(* one call of _resolve_function_call with a chained call name *)
ResolveChain ==
    /\ rpc = "idle"
    /\ \E c \in ChainCallInputs :
           /\ call' = c
           /\ callee_info' = ResolveFunctionCall(c.call_name, c.module_qn,
                                                 c.local_var_types, c.class_context)
    /\ rpc' = "resolved"
    /\ UNCHANGED <<search, tables, walk>>

NextChain == ResolveChain

SpecChain == InitChain /\ [][NextChain]_vars

-----------------------------------------------------------------------------
(* The chain test of the resolver on its own: the texts of attribute       *)
(* callees u.m, u.m(args).m, ... with up to MaxChain attribute accesses    *)
MaxChain == 3

MethodNames == {"run", "make"}

(* no argument, a name, an attribute and a call on an attribute *)
ChainArguments == { <<>>, <<"x">>, <<"a", ".", "b">>, <<"a", ".", "b", "(", ")">> }

RECURSIVE AttributeTexts(_)
AttributeTexts(n) ==
    IF n = 1 THEN {<<"u", ".", name>> : name \in MethodNames}
    ELSE {object \o <<"(">> \o arguments \o <<")", ".", name>> :
              object \in AttributeTexts(n - 1), arguments \in ChainArguments,
              name \in MethodNames}

DetectNames == {T("f")} \cup UNION {AttributeTexts(n) : n \in 1..MaxChain}

InitDetect ==
    /\ function_registry = <<>>
    /\ import_mapping = [m \in {} |-> <<>>]
    /\ class_inheritance = [c \in {} |-> <<>>]
    /\ call = NoCall
    /\ callee_info = None
    /\ search_queue = <<>>
    /\ search_visited = {}
    /\ rpc = "idle"
    /\ root_node = <<>>
    /\ pass = "none"
    /\ run = 0
    /\ emitted = <<>>
    /\ walked = <<>>
    /\ first_run = <<>>

(* the test of line 315 on one call name *)
DetectChain ==
    /\ rpc = "idle"
    /\ \E call_name \in DetectNames :
           /\ call' = [call_name |-> call_name]
           /\ callee_info' = (Contains(call_name, ".") /\ IsMethodChain(call_name))
    /\ rpc' = "detected"
    /\ UNCHANGED <<search, tables, walk>>

NextDetect == DetectChain

SpecDetect == InitDetect /\ [][NextDetect]_vars

-----------------------------------------------------------------------------
(* The syntax tree of a Python file.  root_node lists the class, function  *)
(* and call nodes below the module node (node 0) in document order; slot   *)
(* is the field of the parent call that holds a nested call: "function"    *)
(* for the object of its attribute callee (x.f().g()), "arguments" for an  *)
(* argument (f(g())).  known tells whether the called name is one the file *)
(* defines.                                                                *)
MaxNodes == 5

NodeNames == <<"n1", "n2", "n3", "n4", "n5", "n6", "n7", "n8">>
Name(i) == <<NodeNames[i]>>

KindAt(tree, i) == IF i = 0 THEN "module" ELSE tree[i].kind

RECURSIVE AncestorsOrSelf(_, _)
AncestorsOrSelf(tree, i) ==
    IF i = 0 THEN {0} ELSE {i} \cup AncestorsOrSelf(tree, tree[i].parent)

Ancestors(tree, i) == AncestorsOrSelf(tree, i) \ {i}

NodeOf(kind, parent, slot, known) ==
    [kind |-> kind, parent |-> parent, slot |-> slot, known |-> known]

(* the nodes that may follow the nodes of tree in document order *)
NextNodes(tree) ==
    LET parents == AncestorsOrSelf(tree, Len(tree))
    IN {NodeOf("class", p, "body", FALSE) :
            p \in {q \in parents : KindAt(tree, q) \in {"module", "class"}}}
       \cup
       {NodeOf("function", p, "body", FALSE) :
            p \in {q \in parents : KindAt(tree, q) \in {"module", "class", "function"}}}
       \cup
       {NodeOf("call", p, "body", k) :
            p \in {q \in parents : KindAt(tree, q) = "function"}, k \in BOOLEAN}
       \cup
       {NodeOf("call", p, "function", k) :
            p \in {q \in parents : /\ KindAt(tree, q) = "call"
                                   /\ \A j \in 1..Len(tree) : tree[j].parent # q},
            k \in BOOLEAN}
       \cup
       {NodeOf("call", p, "arguments", k) :
            p \in {q \in parents : KindAt(tree, q) = "call"}, k \in BOOLEAN}

(* the nodes of a kind in the subtree below node i, in document order *)
RECURSIVE Below(_, _, _, _)
Below(tree, i, kind, j) ==
    IF j > Len(tree) THEN <<>>
    ELSE (IF tree[j].kind = kind /\ i \in Ancestors(tree, j) THEN <<j>> ELSE <<>>)
         \o Below(tree, i, kind, j + 1)

(* QueryCursor(query).captures(node): the captured nodes of the subtree *)
Captures(tree, i, kind) ==
    (IF i # 0 /\ tree[i].kind = kind THEN <<i>> ELSE <<>>) \o Below(tree, i, kind, 1)

(* the nested calls of call node c held by one of its fields *)
RECURSIVE CallChildren(_, _, _, _)
CallChildren(tree, c, slot, j) ==
    IF j > Len(tree) THEN <<>>
    ELSE (IF tree[j].parent = c /\ tree[j].slot = slot THEN <<j>> ELSE <<>>)
         \o CallChildren(tree, c, slot, j + 1)

Functions(tree) == {i \in 1..Len(tree) : tree[i].kind = "function"}
TopClasses(tree) == {i \in 1..Len(tree) : tree[i].kind = "class" /\ tree[i].parent = 0}
Least(S) == CHOOSE i \in S : \A j \in S : i <= j

(* the name a known call uses: the first function of the file, through the *)
(* typed parameter u when that function is a method of the typed class     *)
KnownMethod(tree) == Name(Least(Functions(tree)))
KnownTarget(tree) ==
    LET f == Least(Functions(tree))
    IN IF TopClasses(tree) # {} /\ tree[f].parent = Least(TopClasses(tree))
       THEN Dot(<<"u">>, Name(f))
       ELSE Name(f)

-----------------------------------------------------------------------------
(* The text of a call expression and of its callee                         *)
RECURSIVE CallText(_, _)
RECURSIVE CalleeText(_, _)
RECURSIVE ArgumentsText(_, _)

ArgumentsText(tree, arguments) ==
    IF arguments = <<>> THEN <<>>
    ELSE IF Len(arguments) = 1 THEN CallText(tree, arguments[1])
    ELSE CallText(tree, arguments[1]) \o <<",">> \o ArgumentsText(tree, Tail(arguments))

CalleeText(tree, c) ==
    LET object == CallChildren(tree, c, "function", 1)
    IN IF object = <<>>
       THEN (IF tree[c].known THEN KnownTarget(tree) ELSE <<"ext">>)
       ELSE Dot(CallText(tree, object[1]),
                IF tree[c].known THEN KnownMethod(tree) ELSE <<"ext">>)

CallText(tree, c) ==
    CalleeText(tree, c) \o <<"(">>
        \o ArgumentsText(tree, CallChildren(tree, c, "arguments", 1)) \o <<")">>

(* _get_call_target_name: the text of an identifier or attribute callee *)
GetCallTargetName(tree, c) == CalleeText(tree, c)

(* type_inference.build_local_variable_type_map: the functions of the file *)
(* take a parameter u annotated with the first top-level class, if any     *)
BuildLocalVariableTypeMap(tree) ==
    IF TopClasses(tree) = {} THEN NoTypes
    ELSE [x \in {<<"u">>} |-> Name(Least(TopClasses(tree)))]

Caller(walk_index, caller_qn, caller_type, module_qn, local_var_types, class_context) ==
    [walk |-> walk_index, caller_qn |-> caller_qn, caller_type |-> caller_type,
     module_qn |-> module_qn, local_var_types |-> local_var_types,
     class_context |-> class_context]

(* ingestor.ensure_relationship_batch(caller, "CALLS", callee); site and walk *)
(* record the call node and the walk the assertion comes from               *)
Calls(caller, info, site) ==
    [src_type |-> caller.caller_type, src |-> caller.caller_qn,
     dst_type |-> info[1], dst |-> info[2], site |-> site, walk |-> caller.walk]

(* a call site that asserts an edge to module_qn.call_name when unresolved *)
EmitCallGuessing(tree, c, caller) ==
    LET call_name == GetCallTargetName(tree, c)
        info == ResolveFunctionCall(call_name, caller.module_qn,
                                    caller.local_var_types, caller.class_context)
    IN IF info = None
       THEN <<Calls(caller, <<"Function", Dot(caller.module_qn, call_name)>>, c)>>
       ELSE <<Calls(caller, info, c)>>

(* a call site that skips an edge asserted by an earlier run *)
EmitCallOnce(tree, c, caller) ==
    LET call_name == GetCallTargetName(tree, c)
        info == ResolveFunctionCall(call_name, caller.module_qn,
                                    caller.local_var_types, caller.class_context)
    IN IF info = None \/ \E i \in 1..Len(first_run) : first_run[i] = Calls(caller, info, c)
       THEN <<>>
       ELSE <<Calls(caller, info, c)>>

(* resolve the callee of one call node and assert the edge *)
EmitCall(tree, c, caller) ==
    LET call_name == GetCallTargetName(tree, c)
        info == ResolveFunctionCall(call_name, caller.module_qn,
                                    caller.local_var_types, caller.class_context)
    IN IF info = None THEN <<>> ELSE <<Calls(caller, info, c)>>

RECURSIVE FindAndProcessNestedCalls(_, _, _)
RECURSIVE FindAndProcessEach(_, _, _)

(* _process_nested_calls_in_node: the calls inside an attribute callee *)
ProcessNestedCallsInNode(tree, c, caller) ==
    FindAndProcessEach(tree, CallChildren(tree, c, "function", 1), caller)

(* _find_and_process_nested_calls at a call node: its nested calls, the    *)
(* call itself, then the search through all its children                   *)
FindAndProcessNestedCalls(tree, c, caller) ==
    ProcessNestedCallsInNode(tree, c, caller)
        \o EmitCall(tree, c, caller)
        \o FindAndProcessEach(tree, CallChildren(tree, c, "function", 1)
                                        \o CallChildren(tree, c, "arguments", 1), caller)

FindAndProcessEach(tree, nodes, caller) ==
    IF nodes = <<>> THEN <<>>
    ELSE FindAndProcessNestedCalls(tree, nodes[1], caller)
             \o FindAndProcessEach(tree, Tail(nodes), caller)

(* a loop that asserts the edge of a call before those of its nested calls *)
RECURSIVE IngestOuterFirst(_, _, _)
IngestOuterFirst(tree, call_nodes, caller) ==
    IF call_nodes = <<>> THEN <<>>
    ELSE EmitCall(tree, call_nodes[1], caller)
             \o ProcessNestedCallsInNode(tree, call_nodes[1], caller)
             \o IngestOuterFirst(tree, Tail(call_nodes), caller)

(* _ingest_function_calls: the loop over the captured call nodes *)
RECURSIVE IngestCallNodes(_, _, _)
IngestCallNodes(tree, call_nodes, caller) ==
    IF call_nodes = <<>> THEN <<>>
    ELSE ProcessNestedCallsInNode(tree, call_nodes[1], caller)
             \o EmitCall(tree, call_nodes[1], caller)
             \o IngestCallNodes(tree, Tail(call_nodes), caller)

IngestFunctionCalls(tree, caller_node, caller) ==
    IngestCallNodes(tree, Captures(tree, caller_node, "call"), caller)

(* _is_method *)
IsMethod(tree, func_node) ==
    \E a \in Ancestors(tree, func_node) : KindAt(tree, a) = "class"

(* the ancestors of a node below the module, outermost first *)
RECURSIVE PathTo(_, _)
PathTo(tree, i) == IF i = 0 THEN <<>> ELSE Append(PathTo(tree, tree[i].parent), i)

RECURSIVE NamesOf(_, _)
NamesOf(tree, path) ==
    IF path = <<>> THEN <<>> ELSE <<Name(path[1])>> \o NamesOf(tree, Tail(path))

(* _build_nested_qualified_name *)
BuildNestedQualifiedName(tree, func_node, module_qn, func_name) ==
    LET enclosing == PathTo(tree, tree[func_node].parent)
        path_parts == NamesOf(tree, SelectSeq(enclosing,
                                              LAMBDA a : tree[a].kind = "function"))
    IN IF \E a \in Range(enclosing) : tree[a].kind = "class" THEN None
       ELSE IF path_parts # <<>>
       THEN Dot(Dot(module_qn, Join(path_parts, ".")), func_name)
       ELSE Dot(module_qn, func_name)

-----------------------------------------------------------------------------
(* process_calls_in_file                                                   *)
PROJECT_NAME == <<"p">>
RELATIVE_PATH == <<<<"m", ".", "py">>>>

LastIndex(str, t) == CHOOSE i \in 1..Len(str) : str[i] = t /\ \A j \in (i + 1)..Len(str) : str[j] # t

(* Path.with_suffix("").parts *)
WithoutSuffix(path) ==
    LET name == path[Len(path)]
    IN IF Contains(name, ".")
       THEN SubSeq(path, 1, Len(path) - 1) \o <<SubSeq(name, 1, LastIndex(name, ".") - 1)>>
       ELSE path

(* a module QN that keeps the __init__ of a package initializer *)
FileModuleQNWithInit(project_name, relative_path) ==
    Join(<<project_name>> \o WithoutSuffix(relative_path), ".")

FileModuleQN(project_name, relative_path) ==
    IF relative_path[Len(relative_path)] = <<"__init__", ".", "py">>
    THEN Join(<<project_name>> \o SubSeq(relative_path, 1, Len(relative_path) - 1), ".")
    ELSE Join(<<project_name>> \o WithoutSuffix(relative_path), ".")

(* the state of the walk: the callers walked and the assertions sent *)
Walked(caller, caller_node) ==
    [node |-> caller_node, caller_qn |-> caller.caller_qn,
     caller_type |-> caller.caller_type, class_context |-> caller.class_context]

(* _process_calls_in_functions: the loop over the captured functions *)
RECURSIVE ProcessFunctionNodes(_, _, _, _)
ProcessFunctionNodes(tree, func_nodes, module_qn, done) ==
    IF func_nodes = <<>> THEN done
    ELSE LET func_node == func_nodes[1]
             func_qn == BuildNestedQualifiedName(tree, func_node, module_qn, Name(func_node))
             caller == Caller(Len(done.walked) + 1, func_qn, "Function", module_qn,
                              BuildLocalVariableTypeMap(tree), None)
         IN IF IsMethod(tree, func_node) \/ func_qn = None
            THEN ProcessFunctionNodes(tree, Tail(func_nodes), module_qn, done)
            ELSE ProcessFunctionNodes(tree, Tail(func_nodes), module_qn,
                     [walked |-> Append(done.walked, Walked(caller, func_node)),
                      emitted |-> done.emitted \o IngestFunctionCalls(tree, func_node, caller)])

ProcessCallsInFunctionsOf(tree, module_qn, done) ==
    ProcessFunctionNodes(tree, Captures(tree, 0, "function"), module_qn, done)

(* _process_calls_in_classes: the loop over the functions of a class body *)
RECURSIVE ProcessMethodNodes(_, _, _, _, _)
ProcessMethodNodes(tree, method_nodes, class_qn, module_qn, done) ==
    IF method_nodes = <<>> THEN done
    ELSE LET method_node == method_nodes[1]
             method_qn == Dot(class_qn, Name(method_node))
             caller == Caller(Len(done.walked) + 1, method_qn, "Method", module_qn,
                              BuildLocalVariableTypeMap(tree), class_qn)
         IN ProcessMethodNodes(tree, Tail(method_nodes), class_qn, module_qn,
                [walked |-> Append(done.walked, Walked(caller, method_node)),
                 emitted |-> done.emitted \o IngestFunctionCalls(tree, method_node, caller)])

(* _process_calls_in_classes: the loop over the captured classes *)
RECURSIVE ProcessClassNodes(_, _, _, _)
ProcessClassNodes(tree, class_nodes, module_qn, done) ==
    IF class_nodes = <<>> THEN done
    ELSE LET class_node == class_nodes[1]
             class_qn == Dot(module_qn, Name(class_node))
         IN ProcessClassNodes(tree, Tail(class_nodes), module_qn,
                ProcessMethodNodes(tree, Below(tree, class_node, "function", 1),
                                   class_qn, module_qn, done))

ProcessCallsInClassesOf(tree, module_qn, done) ==
    ProcessClassNodes(tree, Captures(tree, 0, "class"), module_qn, done)

(* Pass 1, the structure scanner: every class and function is registered   *)
(* under the module QN, the names of all its enclosing classes and         *)
(* functions and its own name; a function directly in a class is a Method  *)
ScanQN(tree, i, module_qn) == Dot(module_qn, Join(NamesOf(tree, PathTo(tree, i)), "."))

ScanKind(tree, i) ==
    IF tree[i].kind = "class" THEN "Class"
    ELSE IF KindAt(tree, tree[i].parent) = "class" THEN "Method"
    ELSE "Function"

RECURSIVE ScanFrom(_, _, _)
ScanFrom(tree, i, module_qn) ==
    IF i > Len(tree) THEN <<>>
    ELSE (IF tree[i].kind = "call" THEN <<>>
          ELSE <<[qn |-> ScanQN(tree, i, module_qn), kind |-> ScanKind(tree, i)]>>)
         \o ScanFrom(tree, i + 1, module_qn)

Scan(tree) == ScanFrom(tree, 1, FileModuleQN(PROJECT_NAME, RELATIVE_PATH))

Init ==
    /\ root_node = <<>>
    /\ function_registry = <<>>
    /\ import_mapping = [m \in {} |-> <<>>]
    /\ class_inheritance = [c \in {} |-> <<>>]
    /\ pass = "parse"
    /\ run = 1
    /\ emitted = <<>>
    /\ walked = <<>>
    /\ first_run = <<>>
    /\ call = NoCall
    /\ callee_info = None
    /\ search_queue = <<>>
    /\ search_visited = {}
    /\ rpc = "none"

(* the parser reaches the next class, function or call of the file *)
ParseNode ==
    /\ pass = "parse"
    /\ Len(root_node) < MaxNodes
    /\ \E nd \in NextNodes(root_node) : root_node' = Append(root_node, nd)
    /\ UNCHANGED <<search, tables, resolver, pass, run, emitted, walked, first_run>>

(* passes 1 and 2 over the parsed file: its definitions are registered and *)
(* its (empty) import map is recorded                                      *)
ScanFile ==
    /\ pass = "parse"
    /\ function_registry' = Scan(root_node)
    /\ import_mapping' = [m \in {FileModuleQN(PROJECT_NAME, RELATIVE_PATH)} |-> <<>>]
    /\ pass' = "scanned"
    /\ UNCHANGED <<search, class_inheritance, resolver, root_node, run, emitted, walked, first_run>>

(* process_calls_in_file: the module QN, the functions, then the classes *)
ProcessCallsInFileOf(tree, project_name, relative_path) ==
    LET module_qn == FileModuleQN(project_name, relative_path)
    IN ProcessCallsInClassesOf(tree, module_qn,
           ProcessCallsInFunctionsOf(tree, module_qn, [walked |-> <<>>, emitted |-> <<>>]))

ProcessCallsInFile ==
    /\ pass = "scanned"
    /\ \E done \in {ProcessCallsInFileOf(root_node, PROJECT_NAME, RELATIVE_PATH)} :
           /\ walked' = done.walked
           /\ emitted' = done.emitted
    /\ pass' = "done"
    /\ UNCHANGED <<search, tables, resolver, root_node, run, first_run>>

(* the engine is run again over the same repository and tables *)
RunAgain ==
    /\ pass = "done"
    /\ run = 1
    /\ run' = 2
    /\ first_run' = emitted
    /\ emitted' = <<>>
    /\ walked' = <<>>
    /\ pass' = "scanned"
    /\ UNCHANGED <<search, tables, resolver, root_node>>

Next == ParseNode \/ ScanFile \/ ProcessCallsInFile \/ RunAgain

Spec == Init /\ [][Next]_vars

-----------------------------------------------------------------------------
(* process_calls_in_file with its arguments: the path of the file and the  *)
(* queries of the languages                                                *)
MaxFileNodes == 3

REPO_PATH == <<<<"repo">>>>
FilePaths == {REPO_PATH \o RELATIVE_PATH, <<<<"tmp">>>> \o RELATIVE_PATH}

(* the queries handed over: all of Python's, Python's without the class    *)
(* query, and none for Python                                              *)
QuerySets ==
    { [language \in {"python"} |-> {"config", "functions", "classes", "calls"}],
      [language \in {"python"} |-> {"config", "functions", "calls"}],
      [language \in {"java"} |-> {"config", "functions", "classes", "calls"}] }

(* Path.relative_to: ValueError when the path is not below the other *)
RelativeTo(path, other) ==
    IF StartsWith(path, other)
    THEN [raised |-> FALSE, value |-> SubSeq(path, Len(other) + 1, Len(path))]
    ELSE [raised |-> TRUE, value |-> <<>>]

(* line 55: the class pass, which needs the class query of the language *)
ClassPassWith(tree, module_qn, language, queries, functions) ==
    IF "classes" \notin queries[language] THEN functions
    ELSE ProcessCallsInClassesOf(tree, module_qn, functions)

(* lines 45-58: an exception of the passes is caught, what was sent stays *)
PassesWith(tree, module_qn, language, queries) ==
    IF language \notin DOMAIN queries THEN [walked |-> <<>>, emitted |-> <<>>]
    ELSE ClassPassWith(tree, module_qn, language, queries,
             ProcessCallsInFunctionsOf(tree, module_qn, [walked |-> <<>>, emitted |-> <<>>]))

(* process_calls_in_file: what it sends and whether an exception leaves it *)
ProcessCallsInFileWith(tree, relative_path, language, queries) ==
    IF relative_path.raised
    THEN [raised |-> TRUE, done |-> [walked |-> <<>>, emitted |-> <<>>]]
    ELSE [raised |-> FALSE,
          done |-> PassesWith(tree, FileModuleQN(PROJECT_NAME, relative_path.value),
                              language, queries)]

ParseFileNode ==
    /\ pass = "parse"
    /\ Len(root_node) < MaxFileNodes
    /\ \E nd \in NextNodes(root_node) : root_node' = Append(root_node, nd)
    /\ UNCHANGED <<search, tables, resolver, pass, run, emitted, walked, first_run>>

ProcessFile ==
    /\ pass = "scanned"
    /\ \E file_path \in FilePaths, queries \in QuerySets :
           \E result \in {ProcessCallsInFileWith(root_node, RelativeTo(file_path, REPO_PATH),
                                                 "python", queries)} :
               /\ walked' = result.done.walked
               /\ emitted' = result.done.emitted
               /\ pass' = IF result.raised THEN "raised" ELSE "done"
    /\ UNCHANGED <<search, tables, resolver, root_node, run, first_run>>

NextFile == ParseFileNode \/ ScanFile \/ ProcessFile

SpecFile == Init /\ [][NextFile]_vars

-----------------------------------------------------------------------------
(* Pass 2, the import processor, on relative imports:                      *)
(* from <dots><module_name> import <name> in the file at relative_path     *)
SourceFiles ==
    { <<<<"m", ".", "py">>>>,
      <<<<"pkg">>, <<"mod", ".", "py">>>>,
      <<<<"pkg">>, <<"__init__", ".", "py">>>>,
      <<<<"pkg">>, <<"sub">>, <<"mod", ".", "py">>>>,
      <<<<"pkg">>, <<"sub">>, <<"__init__", ".", "py">>>> }

IsPackageFile(relative_path) == relative_path[Len(relative_path)] = <<"__init__", ".", "py">>

(* the package a module belongs to: the module itself for an initializer *)
CurrentPackage(module_qn, is_package) ==
    LET parts == Split(module_qn, ".")
    IN IF is_package THEN parts ELSE SubSeq(parts, 1, Len(parts) - 1)

RelativeImportTarget(module_qn, is_package, dots, module_name, name) ==
    LET package == CurrentPackage(module_qn, is_package)
        base == SubSeq(package, 1, Len(package) - (dots - 1))
    IN Join(base \o (IF module_name = <<>> THEN <<>> ELSE <<module_name>>) \o <<name>>, ".")

(* import_map[key] = value *)
SetImport(import_map, key, value) ==
    IF key \in ImportKeys(import_map)
    THEN [i \in 1..Len(import_map) |->
              IF import_map[i].key = key THEN [key |-> key, value |-> value]
              ELSE import_map[i]]
    ELSE Append(import_map, [key |-> key, value |-> value])

ImportStatement(relative_path, dots, module_name, name) ==
    [relative_path |-> relative_path, dots |-> dots, module_name |-> module_name,
     name |-> name]

InitImport ==
    /\ root_node = <<>>
    /\ function_registry = <<>>
    /\ import_mapping = [m \in {} |-> <<>>]
    /\ class_inheritance = [c \in {} |-> <<>>]
    /\ pass = "imports"
    /\ run = 1
    /\ emitted = <<>>
    /\ walked = <<>>
    /\ first_run = <<>>
    /\ call = NoCall
    /\ callee_info = None
    /\ search_queue = <<>>
    /\ search_visited = {}
    /\ rpc = "none"

(* one relative import statement is parsed: its entry is stored and its    *)
(* IMPORTS edge is sent                                                    *)
ParseRelativeImport ==
    /\ pass = "imports"
    /\ Len(emitted) < MaxImports
    /\ \E relative_path \in SourceFiles, module_name \in {<<>>, <<"models">>},
          name \in {<<"X">>, <<"Y">>} :
         \E dots \in 1..Len(relative_path) :
           \E module_qn \in {FileModuleQN(PROJECT_NAME, relative_path)} :
             \E target \in {RelativeImportTarget(module_qn, IsPackageFile(relative_path),
                                                  dots, module_name, name)} :
               /\ import_mapping' =
                      [m \in DOMAIN import_mapping \cup {module_qn} |->
                           IF m = module_qn
                           THEN SetImport(IF m \in DOMAIN import_mapping
                                          THEN import_mapping[m] ELSE <<>>, name, target)
                           ELSE import_mapping[m]]
               /\ emitted' = Append(emitted,
                      [src_type |-> "Module", src |-> module_qn,
                       dst_type |-> "Module", dst |-> target,
                       site |-> ImportStatement(relative_path, dots, module_name, name),
                       walk |-> 0])
    /\ UNCHANGED <<search, function_registry, class_inheritance, resolver, root_node, pass, run,
                   walked, first_run>>

NextImport == ParseRelativeImport

SpecImport == InitImport /\ [][NextImport]_vars

-----------------------------------------------------------------------------
(* _calculate_import_distance on its own: the QNs of a small package tree  *)
MaxParts == 4

PartNames == {"p", "m", "f"}

(* the dotted names of exactly n components *)
RECURSIVE DottedNames(_)
DottedNames(n) ==
    IF n = 1 THEN {<<name>> : name \in PartNames}
    ELSE {Dot(prefix, <<name>>) : prefix \in DottedNames(n - 1), name \in PartNames}

CandidateQNs == UNION {DottedNames(n) : n \in 1..MaxParts}
CallerModuleQNs == UNION {DottedNames(n) : n \in 1..(MaxParts - 1)}

InitDistance ==
    /\ function_registry = <<>>
    /\ import_mapping = [m \in {} |-> <<>>]
    /\ class_inheritance = [c \in {} |-> <<>>]
    /\ call = NoCall
    /\ callee_info = None
    /\ search_queue = <<>>
    /\ search_visited = {}
    /\ rpc = "idle"
    /\ root_node = <<>>
    /\ pass = "none"
    /\ run = 0
    /\ emitted = <<>>
    /\ walked = <<>>
    /\ first_run = <<>>

(* one call of _calculate_import_distance *)
CalculateDistance ==
    /\ rpc = "idle"
    /\ \E candidate_qn \in CandidateQNs, caller_module_qn \in CallerModuleQNs :
           /\ call' = [candidate_qn |-> candidate_qn, caller_module_qn |-> caller_module_qn]
           /\ callee_info' = CalculateImportDistance(candidate_qn, caller_module_qn)
    /\ rpc' = "distance"
    /\ UNCHANGED <<search, tables, walk>>

NextDistance == CalculateDistance

SpecDistance == InitDistance /\ [][NextDistance]_vars

-----------------------------------------------------------------------------
(* Properties of _resolve_function_call, read off the last call            *)
Resolved == rpc = "resolved"
IsSuper == StartsWith(call.call_name, SuperPrefix)
IsChain == Contains(call.call_name, ".") /\ IsMethodChain(call.call_name)
HasImportMap == call.module_qn \in DOMAIN import_mapping
CallImportMap == import_mapping[call.module_qn]
Hit(qn) == <<RegistryKind(qn), qn>>

RECURSIVE FirstHit(_)
FirstHit(hits) ==
    IF hits = <<>> THEN None
    ELSE IF hits[1] # None THEN hits[1]
    ELSE FirstHit(Tail(hits))

SuperHit ==
    IF IsSuper THEN ResolveSuperCall(call.call_name, call.module_qn, call.class_context)
    ELSE None
ChainHit ==
    IF IsChain
    THEN ResolveChainedCall(call.call_name, call.module_qn, call.local_var_types)
    ELSE None
ImportExactHit ==
    IF HasImportMap THEN DirectImport(call.call_name, CallImportMap) ELSE None
QualifiedHit ==
    IF HasImportMap
    THEN QualifiedCall(call.call_name, call.module_qn, call.local_var_types, CallImportMap)
    ELSE None
WildcardHit ==
    IF HasImportMap THEN WildcardImport(call.call_name, CallImportMap) ELSE None
SameModuleHit == SameModule(call.call_name, call.module_qn)
SuffixHit == TrieFallback(call.call_name, call.module_qn)

(* C2: the result is the hit of the first phase that hits, in the order    *)
(* super call, method chain, import-map exact, qualified dotted call,      *)
(* wildcard expansion, same-module, suffix fallback (None when none hits). *)
C2_PhasePrecedence ==
    Resolved =>
        callee_info = FirstHit(<<SuperHit, ChainHit, ImportExactHit, QualifiedHit,
                                 WildcardHit, SameModuleHit, SuffixHit>>)

(* a call where two phases hit with different targets, the earlier one returned *)
C2_Witness ==
    /\ Resolved
    /\ ImportExactHit # None
    /\ SameModuleHit # None
    /\ WildcardHit # None
    /\ ImportExactHit # SameModuleHit
    /\ ImportExactHit # WildcardHit
    /\ callee_info = ImportExactHit

ExternalImport ==
    /\ Resolved
    /\ HasImportMap
    /\ call.call_name \in ImportKeys(CallImportMap)
    /\ ~InRegistry(ImportValue(CallImportMap, call.call_name))

(* C4 as claimed: a call bound by the Import Map to a QN outside the       *)
(* registry resolves to None.                                              *)
C4_ExternalUnresolved == ExternalImport => callee_info = None

(* C4 amended: such a call returns the first hit of the later phases       *)
(* (qualified, wildcard, same-module, suffix fallback), a registered QN    *)
(* that is not the external one, and None only when all of them miss.      *)
C4_ExternalFallsThrough ==
    ExternalImport =>
        /\ callee_info = FirstHit(<<QualifiedHit, WildcardHit, SameModuleHit, SuffixHit>>)
        /\ callee_info # None =>
               /\ InRegistry(callee_info[2])
               /\ callee_info[2] # ImportValue(CallImportMap, call.call_name)

(* an external import whose call the suffix fallback resolves in the repository *)
C4_Witness ==
    /\ ExternalImport
    /\ WildcardHit = None
    /\ SameModuleHit = None
    /\ callee_info # None
    /\ callee_info = SuffixHit


(* C6: a call_name that begins with super() is resolved against the        *)
(* inheritance chain of class_context only: None without a class_context,  *)
(* without an entry or with an empty parent list in the inheritance table, *)
(* and for a bare super(); otherwise the inheritance walk's result for     *)
(* (class_context, the text after "super().").                             *)
C6_SuperDispatch ==
    (Resolved /\ IsSuper) =>
        callee_info =
            IF \/ call.call_name = SuperPrefix
               \/ call.class_context = None
               \/ call.class_context \notin DOMAIN class_inheritance
               \/ class_inheritance[call.class_context] = <<>>
            THEN None
            ELSE ResolveInheritedMethod(call.class_context,
                                        SubSeq(call.call_name, Len(SuperPrefix) + 2,
                                               Len(call.call_name)))

(* a super call resolved on an ancestor while the class has the method itself *)
C6_Witness ==
    /\ Resolved
    /\ IsSuper
    /\ callee_info # None
    /\ InRegistry(Dot(call.class_context, <<"run">>))
    /\ callee_info[2] # Dot(call.class_context, <<"run">>)

(* C7: a call_name (no super call, no chain) that the module's Import Map  *)
(* binds to a registered QN q resolves to (registry[q], q), whatever the   *)
(* wildcard entries, same-module definitions and suffix candidates.        *)
C7_ImportExact ==
    (/\ Resolved
     /\ ~IsSuper
     /\ ~IsChain
     /\ HasImportMap
     /\ call.call_name \in ImportKeys(CallImportMap)
     /\ InRegistry(ImportValue(CallImportMap, call.call_name)))
    => callee_info = Hit(ImportValue(CallImportMap, call.call_name))

(* an imported name that a wildcard entry and the same module define too *)
C7_Witness ==
    /\ Resolved
    /\ call.call_name = <<"f">>
    /\ HasImportMap
    /\ <<"f">> \in ImportKeys(CallImportMap)
    /\ InRegistry(ImportValue(CallImportMap, <<"f">>))
    /\ callee_info = Hit(ImportValue(CallImportMap, <<"f">>))
    /\ WildcardHit # None
    /\ WildcardHit # callee_info
    /\ SameModuleHit # None

InstanceParts == Split(call.call_name, ".")
InstanceClassQN ==
    resolve_class_name(call.local_var_types[InstanceParts[1]], call.module_qn)

(* C8: a call v.m, where v is no Import Map key and local_var_types binds  *)
(* v to a type that resolves to ClassQN, resolves to ClassQN.m when that   *)
(* is registered and otherwise to the inheritance walk's result for        *)
(* (ClassQN, m), whether or not the module has an import map.              *)
C8_InstanceCall ==
    (/\ Resolved
     /\ ~IsSuper
     /\ ~IsChain
     /\ Len(InstanceParts) = 2
     /\ InstanceParts[1] \in DOMAIN call.local_var_types
     /\ HasImportMap => InstanceParts[1] \notin ImportKeys(CallImportMap)
     /\ InstanceClassQN # None)
    => callee_info =
           IF InRegistry(Dot(InstanceClassQN, InstanceParts[2]))
           THEN Hit(Dot(InstanceClassQN, InstanceParts[2]))
           ELSE ResolveInheritedMethod(InstanceClassQN, InstanceParts[2])

WildcardHits ==
    {i \in 1..Len(CallImportMap) :
         /\ StartsWith(CallImportMap[i].key, <<"*">>)
         /\ InRegistry(Dot(CallImportMap[i].value, call.call_name))}

(* C9: when no earlier phase hits, the result is PackageQN.call_name of    *)
(* the first wildcard entry, in the Import Map's insertion order, for      *)
(* which that name is registered, whatever the same module defines and     *)
(* the suffix fallback would find.                                         *)
C9_WildcardFirstHit ==
    (/\ Resolved
     /\ ~IsSuper
     /\ ~IsChain
     /\ HasImportMap
     /\ ImportExactHit = None
     /\ QualifiedHit = None
     /\ WildcardHits # {})
    => LET first == CHOOSE i \in WildcardHits : \A j \in WildcardHits : i <= j
       IN callee_info = Hit(Dot(CallImportMap[first].value, call.call_name))

(* two wildcard entries that both hit, and a same-module definition *)
C9_Witness ==
    /\ Resolved
    /\ HasImportMap
    /\ ImportExactHit = None
    /\ Cardinality(WildcardHits) = 2
    /\ SameModuleHit # None
    /\ callee_info = Hit(Dot(CallImportMap[1].value, call.call_name))
    /\ callee_info # SameModuleHit

SuffixOnly ==
    /\ Resolved
    /\ ~IsSuper
    /\ ~IsChain
    /\ ImportExactHit = None
    /\ QualifiedHit = None
    /\ WildcardHit = None
    /\ SameModuleHit = None
    /\ find_ending_with(call.call_name) # <<>>

Distance(qn) == CalculateImportDistance(qn, call.module_qn)

(* C10: when every earlier phase misses and find_ending_with(call_name) is *)
(* not empty, the result is the candidate of minimum import distance to    *)
(* the module, the first such one in the order of find_ending_with.        *)
C10_SuffixClosest ==
    SuffixOnly =>
        LET candidates == find_ending_with(call.call_name)
        IN \E k \in 1..Len(candidates) :
               /\ callee_info = Hit(candidates[k])
               /\ \A j \in 1..Len(candidates) : Distance(candidates[k]) <= Distance(candidates[j])
               /\ \A j \in 1..(k - 1) : Distance(candidates[j]) > Distance(candidates[k])

(* three candidates: the first is farther, the other two tie *)
C10_Witness ==
    /\ SuffixOnly
    /\ LET candidates == find_ending_with(call.call_name)
       IN /\ Len(candidates) = 3
          /\ callee_info = Hit(candidates[2])
          /\ Distance(candidates[1]) > Distance(candidates[2])
          /\ Distance(candidates[3]) = Distance(candidates[2])

-----------------------------------------------------------------------------
(* Properties of the inheritance walk                                      *)

(* the parents of the classes of level that are not in seen, in order *)
RECURSIVE ParentsOfLevel(_, _)
ParentsOfLevel(level, seen) ==
    IF level = <<>> THEN <<>>
    ELSE LET own == IF level[1] \in DOMAIN class_inheritance
                    THEN SelectSeq(class_inheritance[level[1]], LAMBDA g : g \notin seen)
                    ELSE <<>>
         IN own \o ParentsOfLevel(Tail(level), seen \cup Range(own))

(* the ancestors of a class, nearest generation first *)
RECURSIVE Generations(_, _)
Generations(level, seen) ==
    IF level = <<>> THEN <<>>
    ELSE level \o Generations(ParentsOfLevel(level, seen),
                              seen \cup Range(ParentsOfLevel(level, seen)))

BreadthFirstAncestors(class_qn) ==
    IF class_qn \notin DOMAIN class_inheritance THEN <<>>
    ELSE Generations(class_inheritance[class_qn], Range(class_inheritance[class_qn]))

SuperRun == SuperPrefix \o <<".", "run">>
SuperRunCall == call.call_name = SuperRun /\ call.class_context # None

(* a call u.run on a local variable typed C whose class has no run itself *)
TypedRunCall ==
    /\ call.call_name = QN(<<"u", "run">>)
    /\ call.local_var_types = Typed
    /\ HasImportMap
    /\ T("C") \notin ImportKeys(CallImportMap)
    /\ InRegistry(ClassC)
    /\ ~InRegistry(Dot(ClassC, T("run")))

FirstAncestorWith(class_qn, method_name) ==
    LET ancestors == BreadthFirstAncestors(class_qn)
        having == {i \in 1..Len(ancestors) : InRegistry(Dot(ancestors[i], method_name))}
    IN IF having = {} THEN None
       ELSE Hit(Dot(ancestors[Least(having)], method_name))

(* C11: the inheritance walk for (class, run), reached by super().run in   *)
(* the class or by u.run on a variable of the class, returns Parent.run of *)
(* the first ancestor, taken breadth-first in declared order, that has run *)
(* registered, and None when no ancestor has it or the class has no entry  *)
(* in the inheritance table.                                               *)
C11_BreadthFirstOrder ==
    /\ (Resolved /\ SuperRunCall) =>
           callee_info = FirstAncestorWith(call.class_context, T("run"))
    /\ (Resolved /\ TypedRunCall) =>
           callee_info = FirstAncestorWith(ClassC, T("run"))

(* a direct parent declared second wins over a grandparent reached through *)
(* the first parent                                                        *)
C11_Witness ==
    /\ Resolved
    /\ SuperRunCall
    /\ call.class_context = ClassC
    /\ {ClassC, ClassA} \subseteq DOMAIN class_inheritance
    /\ class_inheritance[ClassC] = <<ClassA, ClassB>>
    /\ InRegistry(Dot(ClassLibC, T("run")))
    /\ InRegistry(Dot(ClassB, T("run")))
    /\ callee_info = Hit(Dot(ClassB, T("run")))

(* C20 as claimed: with f not imported by name and the only wildcard entry *)
(* one of a package recorded with "::", f() resolves to Package::f or to   *)
(* Package.f, whichever is registered.                                     *)
C20_BothSeparators ==
    (/\ Resolved
     /\ call.call_name = T("f")
     /\ HasImportMap
     /\ \A i \in 1..Len(CallImportMap) :
            StartsWith(CallImportMap[i].key, T("*")) => CallImportMap[i].value = PackageColons
     /\ \E i \in 1..Len(CallImportMap) : CallImportMap[i].value = PackageColons) =>
        IF InRegistry(Colons(PackageColons, T("f")))
        THEN callee_info = Hit(Colons(PackageColons, T("f")))
        ELSE InRegistry(Dot(PackageColons, T("f"))) =>
                 callee_info = Hit(Dot(PackageColons, T("f")))

(* a call Name.rest, not of the self.attribute form, where Name is         *)
(* imported, ImportMap[Name].rest is not registered and Name is a typed    *)
(* local variable                                                          *)
ShadowedImport ==
    /\ Resolved
    /\ ~IsSuper
    /\ ~IsChain
    /\ HasImportMap
    /\ Contains(call.call_name, ".")
    /\ ~(Len(InstanceParts) >= 3 /\ InstanceParts[1] = T("self"))
    /\ ImportExactHit = None
    /\ InstanceParts[1] \in ImportKeys(CallImportMap)
    /\ ~InRegistry(Dot(ImportValue(CallImportMap, InstanceParts[1]),
                       Join(Tail(InstanceParts), ".")))
    /\ InstanceParts[1] \in DOMAIN call.local_var_types

(* the instance call on the variable's class: exact, then inherited *)
ShadowInstanceHit ==
    LET method_name == Join(Tail(InstanceParts), ".")
    IN IF InstanceClassQN = None THEN None
       ELSE IF InRegistry(Dot(InstanceClassQN, method_name))
       THEN Hit(Dot(InstanceClassQN, method_name))
       ELSE FirstAncestorWith(InstanceClassQN, method_name)

(* C24 as claimed: for such a call the binding of Name in local_var_types  *)
(* is not consulted, the result is that of the wildcard, same-module and   *)
(* suffix phases.                                                          *)
C24_ImportExclusive ==
    ShadowedImport => callee_info = FirstHit(<<WildcardHit, SameModuleHit, SuffixHit>>)

(* C24 amended: for such a call the resolver goes on to the binding of     *)
(* Name in local_var_types and resolves an instance call on the variable's *)
(* class (exact, then the inheritance walk); the wildcard, same-module and *)
(* suffix phases follow only when that misses too.                         *)
C24_ImportThenVariable ==
    ShadowedImport =>
        callee_info = FirstHit(<<ShadowInstanceHit, WildcardHit, SameModuleHit, SuffixHit>>)

(* u.run where u is imported as p.lib.C, which has no run, and is a        *)
(* variable of the class p.m.C, which has one                              *)
C24_Witness ==
    /\ ShadowedImport
    /\ call.call_name = QN(<<"u", "run">>)
    /\ ImportValue(CallImportMap, T("u")) = ClassLibC
    /\ InstanceClassQN = ClassC
    /\ SuffixHit = None
    /\ InRegistry(Dot(ClassC, T("run")))
    /\ callee_info = Hit(Dot(ClassC, T("run")))

FromSuffix == SuffixOnly /\ callee_info # None

(* C22 as claimed: a QN returned by the suffix fallback is none of the     *)
(* exact QNs of the earlier phases: not ImportMap[call_name], not          *)
(* ImportMap[Name].rest for a call Name.rest, not PackageQN.call_name of   *)
(* a wildcard entry and not module_qn.call_name.                           *)
C22_SuffixNotExact ==
    FromSuffix =>
        /\ callee_info[2] # Dot(call.module_qn, call.call_name)
        /\ HasImportMap =>
               /\ call.call_name \in ImportKeys(CallImportMap) =>
                      callee_info[2] # ImportValue(CallImportMap, call.call_name)
               /\ (/\ Contains(call.call_name, ".")
                   /\ InstanceParts[1] \in ImportKeys(CallImportMap)) =>
                      callee_info[2] # Dot(ImportValue(CallImportMap, InstanceParts[1]),
                                           Join(Tail(InstanceParts), "."))
               /\ \A i \in 1..Len(CallImportMap) :
                      StartsWith(CallImportMap[i].key, T("*")) =>
                          callee_info[2] # Dot(CallImportMap[i].value, call.call_name)

(* C29 as claimed: a super call that resolves returns Parent.method for a  *)
(* class Parent other than the calling class.                              *)
C29_SuperNotOwnClass ==
    (Resolved /\ IsSuper /\ callee_info # None) =>
        callee_info[2] # Dot(call.class_context,
                             SubSeq(call.call_name, Len(SuperPrefix) + 2, Len(call.call_name)))

(* C23: every inheritance walk returns, whatever the table (a class that  *)
(* is its own parent, a cycle through the starting class, a diamond, a     *)
(* parent named twice), and returns what _resolve_inherited_method gives   *)
(* the super, instance and chain resolutions.                              *)
C23_WalkTerminates ==
    /\ [](rpc = "returned" =>
              callee_info = ResolveInheritedMethod(call.class_context, call.call_name))
    /\ (rpc = "walking") ~> (rpc = "returned")

(* a walk that went round a cycle through the starting class, found no run *)
(* and returned                                                            *)
C23_Witness ==
    /\ rpc = "returned"
    /\ callee_info = None
    /\ call.class_context = ClassC
    /\ {ClassC, ClassB} \subseteq DOMAIN class_inheritance
    /\ ClassB \in Range(class_inheritance[ClassC])
    /\ ClassC \in Range(class_inheritance[ClassB])
    /\ ClassC \in search_visited

-----------------------------------------------------------------------------
(* Properties of chained calls                                             *)

(* the number of "(" less the number of ")" in the first i tokens *)
RECURSIVE ParenDepth(_, _)
ParenDepth(text, i) ==
    IF i = 0 THEN 0
    ELSE ParenDepth(text, i - 1)
             + (IF text[i] = "(" THEN 1 ELSE IF text[i] = ")" THEN -1 ELSE 0)

(* the last "." that is outside all parentheses, 0 if there is none *)
TerminalDot(text) ==
    LET dots == {i \in 1..Len(text) : text[i] = "." /\ ParenDepth(text, i) = 0}
    IN IF dots = {} THEN 0 ELSE CHOOSE i \in dots : \A j \in dots : j <= i

ChainObject == SubSeq(call.call_name, 1, TerminalDot(call.call_name) - 1)
ChainMethod == SubSeq(call.call_name, TerminalDot(call.call_name) + 1, Len(call.call_name))
ChainInferred == InferExpressionReturnType(ChainObject, call.module_qn, call.local_var_types)
ChainClass ==
    IF ~Contains(ChainInferred, ".") /\ resolve_class_name(ChainInferred, call.module_qn) # None
    THEN resolve_class_name(ChainInferred, call.module_qn)
    ELSE ChainInferred

(* C13: a chained call name resolves on the type inferred for the text     *)
(* before its last "." outside parentheses: to Type.method when that is    *)
(* registered (a short type name resolved to its class QN first), else to  *)
(* the inheritance walk's result for (Type, method), and to None when no   *)
(* type is inferred.                                                       *)
C13_ChainResolution ==
    (Resolved /\ IsChain /\ ~IsSuper) =>
        IF ChainInferred = None THEN callee_info = None
        ELSE IF InRegistry(Dot(ChainClass, ChainMethod))
             THEN callee_info = Hit(Dot(ChainClass, ChainMethod))
             ELSE callee_info = FirstAncestorWith(ChainClass, ChainMethod)

(* u.make().run: make is declared to return B, B is resolved to p.m.B,     *)
(* which has no run of its own and inherits A.run                          *)
C13_Witness ==
    /\ Resolved
    /\ call.call_name = <<"u", ".", "make", "(", ")", ".", "run">>
    /\ ChainInferred = <<"B">>
    /\ ChainClass = ClassB
    /\ ~InRegistry(Dot(ClassB, T("run")))
    /\ InRegistry(Dot(ClassA, T("run")))
    /\ callee_info = Hit(Dot(ClassA, T("run")))

(* a text with both parentheses whose components, delimited by the dots   *)
(* outside parentheses, have one before the last that carries parentheses  *)
InteriorCall(text) ==
    /\ Contains(text, "(")
    /\ Contains(text, ")")
    /\ TerminalDot(text) > 0
    /\ \E j \in 1..(TerminalDot(text) - 1) : text[j] = "("

(* C25 as claimed: a call name is treated as a method chain exactly when   *)
(* it has both parentheses and a component before its last one, components *)
(* being delimited by the dots outside parentheses, carries parentheses.   *)
C25_ChainDetection ==
    rpc = "detected" => (callee_info <=> InteriorCall(call.call_name))

-----------------------------------------------------------------------------
(* Properties of the walk over a file                                      *)

(* C1 as claimed: the source and the target of every CALLS assertion are   *)
(* keys of the Function Registry.                                          *)
C1_EndpointsRegistered ==
    \A i \in 1..Len(emitted) : InRegistry(emitted[i].src) /\ InRegistry(emitted[i].dst)

WalkModuleQN == FileModuleQN(PROJECT_NAME, RELATIVE_PATH)

SiteResolution(w, site) ==
    ResolveFunctionCall(GetCallTargetName(root_node, site), WalkModuleQN,
                        BuildLocalVariableTypeMap(root_node), walked[w].class_context)

SiteAssertions(w, site) ==
    {i \in 1..Len(emitted) : emitted[i].walk = w /\ emitted[i].site = site}

(* C3: in the walk of a caller, a call site of its body has a CALLS        *)
(* assertion exactly when _resolve_function_call returns a pair for its    *)
(* name, the assertion is from the caller to that pair, and a miss does    *)
(* not stop the call sites after it.                                       *)
C3_MissEmitsNothing ==
    \A w \in 1..Len(walked) :
        \A site \in Range(Captures(root_node, walked[w].node, "call")) :
            /\ SiteAssertions(w, site) # {} <=> SiteResolution(w, site) # None
            /\ \A i \in SiteAssertions(w, site) :
                   /\ emitted[i].src = walked[w].caller_qn
                   /\ <<emitted[i].dst_type, emitted[i].dst>> = SiteResolution(w, site)

(* a caller with an unresolved call site followed by a resolved one *)
C3_Witness ==
    \E w \in 1..Len(walked) :
        \E miss, hit \in Range(Captures(root_node, walked[w].node, "call")) :
            /\ miss < hit
            /\ SiteResolution(w, miss) = None
            /\ SiteAssertions(w, miss) = {}
            /\ SiteAssertions(w, hit) # {}

Edge(assertion) ==
    <<assertion.src_type, assertion.src, assertion.dst_type, assertion.dst>>
Edges(assertions) == {Edge(assertions[i]) : i \in 1..Len(assertions)}

CalleeCalls(c) ==
    {d \in 1..Len(root_node) :
        \E k \in AncestorsOrSelf(root_node, d) :
            /\ k # 0
            /\ root_node[k].parent = c
            /\ root_node[k].slot = "function"}

C14_NestedCallerQN ==
    \A w \in 1..Len(walked) :
        (\E a \in Ancestors(root_node, walked[w].node) : KindAt(root_node, a) = "function") =>
            walked[w].caller_qn =
                Dot(WalkModuleQN, Join(NamesOf(root_node, PathTo(root_node, walked[w].node)), "."))

(* the innermost class around a function node *)
InnermostClass(i) ==
    LET classes == {a \in Ancestors(root_node, i) : KindAt(root_node, a) = "class"}
    IN CHOOSE a \in classes : \A b \in classes : b <= a

WalksOf(i) == {w \in 1..Len(walked) : walked[w].node = i}

(* C15 as claimed: once the file is processed, every function definition   *)
(* has been walked exactly once: as a Method named after its innermost     *)
(* enclosing class when it has a class ancestor, as a Function otherwise.  *)
C15_WalkedOnceByKind ==
    pass = "done" =>
        \A i \in Functions(root_node) :
            /\ Cardinality(WalksOf(i)) = 1
            /\ \A w \in WalksOf(i) :
                   IF IsMethod(root_node, i)
                   THEN /\ walked[w].caller_type = "Method"
                        /\ walked[w].caller_qn =
                               Dot(Dot(WalkModuleQN,
                                       Join(NamesOf(root_node,
                                                    PathTo(root_node, InnermostClass(i))), ".")),
                                   Name(i))
                   ELSE walked[w].caller_type = "Function"

AssertionsAt(site) == {i \in 1..Len(emitted) : emitted[i].site = site}

(* C19 as claimed: once the file is processed, of two call sites with      *)
(* assertions, neither inside the callee expression of the other, the one  *)
(* that starts first in the file has its assertion sent first.             *)
C19_SourceOrder ==
    pass = "done" =>
        \A a, b \in 1..Len(root_node) :
            (/\ a < b
             /\ AssertionsAt(a) # {}
             /\ AssertionsAt(b) # {}
             /\ b \notin CalleeCalls(a)) =>
                Least(AssertionsAt(a)) < Least(AssertionsAt(b))

(* C27 as claimed: in the walk of a caller, no call node has more than one *)
(* CALLS assertion.                                                        *)
C27_NoDuplicateEmission ==
    \A w \in 1..Len(walked) :
        \A site \in 1..Len(root_node) : Cardinality(SiteAssertions(w, site)) <= 1

(* the innermost function or method definition around a node *)
InnermostFunction(i) ==
    LET functions == {a \in Ancestors(root_node, i) : KindAt(root_node, a) = "function"}
    IN CHOOSE a \in functions : \A b \in functions : b <= a

(* C28 as claimed: every CALLS assertion comes from the walk of the        *)
(* innermost function or method definition around its call site.          *)
C28_InnermostAttribution ==
    \A i \in 1..Len(emitted) :
        walked[emitted[i].walk].node = InnermostFunction(emitted[i].site)

-----------------------------------------------------------------------------
(* Properties of process_calls_in_file and its arguments                   *)

(* C16 as claimed: no exception leaves process_calls_in_file.              *)
C16_NoExceptionLeaves == pass # "raised"

-----------------------------------------------------------------------------
(* Properties of the relative imports                                      *)

(* the directories of the importing file, n - 1 of them dropped from the   *)
(* end, below the project name                                             *)
AscendedPackage(statement) ==
    LET directories == SubSeq(statement.relative_path, 1, Len(statement.relative_path) - 1)
    IN <<PROJECT_NAME>> \o SubSeq(directories, 1, Len(directories) - (statement.dots - 1))

ExpectedImport(statement) ==
    Join(AscendedPackage(statement)
             \o (IF statement.module_name = <<>> THEN <<>> ELSE <<statement.module_name>>)
             \o <<statement.name>>, ".")

(* the last assertion sent for the name that assertion i binds in its module *)
LastBinding(i) ==
    \A j \in (i + 1)..Len(emitted) :
        emitted[j].src # emitted[i].src \/ emitted[j].site.name # emitted[i].site.name

-----------------------------------------------------------------------------
(* Properties of the import distance                                       *)
DistanceCall == rpc = "distance"
CandidateParts == Split(call.candidate_qn, ".")
CallerParts == Split(call.caller_module_qn, ".")
CallerPackage == SubSeq(CallerParts, 1, Len(CallerParts) - 1)

(* the candidate is a name defined directly in the caller's parent package *)
DirectChild ==
    /\ Len(CandidateParts) = Len(CallerPackage) + 1
    /\ SubSeq(CandidateParts, 1, Len(CallerPackage)) = CallerPackage

BaseDistance ==
    Max(Len(CandidateParts), Len(CallerParts)) - CommonPrefix(CandidateParts, CallerParts)

(* C21 as claimed: for a caller module inside a package, the distance is   *)
(* the longer length less the common prefix, less 1 exactly when the       *)
(* candidate is a direct child of the caller's parent package.             *)
C21_DirectChildBonus ==
    (DistanceCall /\ Len(CallerParts) >= 2) =>
        callee_info = BaseDistance - (IF DirectChild THEN 1 ELSE 0)

(* C30 as claimed: the import distance is never negative.                  *)
C30_NonNegative == DistanceCall => callee_info >= 0

=============================================================================
